---------------------------- MODULE Spec2Model ----------------------------
(***************************************************************************)
(* A model of the tabular data view of data-lens-analytics:                *)
(*   src/src/components/common/DataTable.tsx  (DataTable, AdvancedFilter)  *)
(* The React components are modelled as a state machine: the props and the *)
(* useState cells are variables, the useMemo cell is a variable that is    *)
(* recomputed by the render step, and the useEffect that resets the page   *)
(* is a step of its own that React runs after the render is committed.     *)
(***************************************************************************)
EXTENDS Integers, Sequences, FiniteSets

VARIABLES
    data,            \* prop `data`: the record collection (a sequence of rows)
    pageSize,        \* prop `pageSize`
    filterFields,    \* prop `filterFields`: the field descriptors
    searchTerm,      \* useState('')  DataTable.tsx:63
    advancedFilters, \* useState({})  DataTable.tsx:65
    currentPage,     \* useState(1)   DataTable.tsx:67
    filters,         \* useState({})  AdvancedFilter, DataTable.tsx:424
    filteredData,    \* the useMemo cell of DataTable.tsx:71-140
    rendered,        \* what the last committed render showed and its handlers closed over
    dirty,           \* the state cells / props set since the last render ("continuous":
                     \* set by a continuous event, whose render React does not flush)
    pc,              \* "idle" | "render" | "effect": React's position; "error" when a
                     \* render has thrown and React has taken the table down
    last             \* history: the last event handler that ran, with its input

vars == <<data, pageSize, filterFields, searchTerm, advancedFilters, currentPage,
          filters, filteredData, rendered, dirty, pc, last>>

-----------------------------------------------------------------------------
(* Bounds of the model.                                                    *)

\* the longest record collection the parent passes as `data`
MaxLen == 3
\* the longest record collection of the table whose page controls are modelled
MaxPages == 20
\* the largest `pageSize` prop
MaxPageSize == 2

-----------------------------------------------------------------------------
(* JavaScript values.  A string is a sequence of one-character strings, so *)
(* that toLowerCase, includes and parseFloat are computed and not assumed. *)

Undefined == [t |-> "undefined"]
Null == [t |-> "null"]
NaN == [t |-> "NaN"]
Bool(b) == [t |-> "boolean", b |-> b]
Num(n) == [t |-> "number", n |-> n]
Str(s) == [t |-> "string", s |-> s]
Arr(a) == [t |-> "array", a |-> a]
Obj(o) == [t |-> "object", o |-> o]
\* a Date object: its time value, in days; Invalid Date has the time value NaN
DateObj(d) == [t |-> "date", d |-> d]
InvalidDate == [t |-> "date", d |-> NaN]

EmptyObj == [k \in {} |-> Undefined]

Max(a, b) == IF a >= b THEN a ELSE b
Min(a, b) == IF a <= b THEN a ELSE b

\* obj[key]: a missing property reads as undefined
Get(obj, key) == IF key \in DOMAIN obj THEN obj[key] ELSE Undefined

\* value.prop on a filter value (an object literal such as {min, max})
Prop(v, key) == IF v.t = "object" THEN Get(v.o, key) ELSE Undefined

\* {...obj, [key]: value}
Spread(obj, key, value) ==
    [k \in (DOMAIN obj) \cup {key} |-> IF k = key THEN value ELSE obj[k]]

\* {...value, [key]: x} where value may be undefined (spreading undefined gives {})
SpreadValue(v, key, x) == Obj(Spread(IF v.t = "object" THEN v.o ELSE EmptyObj, key, x))

\* ToBoolean
Truthy(v) ==
    CASE v.t = "undefined" -> FALSE
      [] v.t = "null" -> FALSE
      [] v.t = "NaN" -> FALSE
      [] v.t = "boolean" -> v.b
      [] v.t = "number" -> v.n # 0
      [] v.t = "string" -> v.s # <<>>
      [] OTHER -> TRUE

Digit(d) == <<"0", "1", "2", "3", "4", "5", "6", "7", "8", "9">>[d + 1]

RECURSIVE NatToStr(_)
NatToStr(n) == IF n < 10 THEN <<Digit(n)>> ELSE NatToStr(n \div 10) \o <<Digit(n % 10)>>

IntToStr(n) == IF n < 0 THEN <<"-">> \o NatToStr(-n) ELSE NatToStr(n)

Chars(str) ==
    CASE str = "null" -> <<"n", "u", "l", "l">>
      [] str = "undefined" -> <<"u", "n", "d", "e", "f", "i", "n", "e", "d">>
      [] str = "true" -> <<"t", "r", "u", "e">>
      [] str = "false" -> <<"f", "a", "l", "s", "e">>
      [] str = "NaN" -> <<"N", "a", "N">>
      [] str = "[object Object]" ->
            <<"[", "o", "b", "j", "e", "c", "t", " ", "O", "b", "j", "e", "c", "t", "]">>

RECURSIVE Join(_)
\* String(value)
String(v) ==
    CASE v.t = "string" -> v.s
      [] v.t = "number" -> IntToStr(v.n)
      [] v.t = "NaN" -> Chars("NaN")
      [] v.t = "null" -> Chars("null")
      [] v.t = "undefined" -> Chars("undefined")
      [] v.t = "boolean" -> IF v.b THEN Chars("true") ELSE Chars("false")
      [] v.t = "array" -> Join(v.a)
      [] OTHER -> Chars("[object Object]")

\* Array.prototype.join(","): null and undefined elements print as ""
Join(a) ==
    IF a = <<>> THEN <<>>
    ELSE LET h == IF Head(a).t \in {"null", "undefined"} THEN <<>> ELSE String(Head(a))
         IN  IF Len(a) = 1 THEN h ELSE h \o <<",">> \o Join(Tail(a))

UpperCase ==
    << "A", "B", "C", "D", "E", "F", "G", "H", "I", "J", "K", "L", "M",
       "N", "O", "P", "Q", "R", "S", "T", "U", "V", "W", "X", "Y", "Z" >>
LowerCase ==
    << "a", "b", "c", "d", "e", "f", "g", "h", "i", "j", "k", "l", "m",
       "n", "o", "p", "q", "r", "s", "t", "u", "v", "w", "x", "y", "z" >>

LowerChar(c) ==
    IF \E i \in 1..Len(UpperCase) : UpperCase[i] = c
    THEN LowerCase[CHOOSE i \in 1..Len(UpperCase) : UpperCase[i] = c]
    ELSE c

\* String.prototype.toLowerCase
toLowerCase(s) == [i \in 1..Len(s) |-> LowerChar(s[i])]

\* String.prototype.includes
includes(s, sub) ==
    \E i \in 0..(Len(s) - Len(sub)) : \A j \in 1..Len(sub) : s[i + j] = sub[j]

IsDigit(c) == c \in {"0", "1", "2", "3", "4", "5", "6", "7", "8", "9"}

DigitVal(c) == CHOOSE d \in 0..9 : Digit(d) = c

RECURSIVE DigitsPrefix(_)
\* the longest prefix of s made of digits
DigitsPrefix(s) ==
    IF s = <<>> \/ ~IsDigit(Head(s)) THEN <<>> ELSE <<Head(s)>> \o DigitsPrefix(Tail(s))

RECURSIVE DigitsVal(_)
DigitsVal(ds) ==
    IF ds = <<>> THEN 0 ELSE 10 * DigitsVal(SubSeq(ds, 1, Len(ds) - 1)) + DigitVal(ds[Len(ds)])

RECURSIVE TrimLeft(_)
TrimLeft(s) == IF s # <<>> /\ Head(s) = " " THEN TrimLeft(Tail(s)) ELSE s

\* parseFloat(value): String(value), leading blanks skipped, an optional sign,
\* then the longest run of digits; NaN when there is no digit.  The strings of
\* the model hold no "." and no exponent, so every parsed number is an integer.
parseFloat(v) ==
    LET s == TrimLeft(String(v))
        neg == s # <<>> /\ Head(s) = "-"
        body == IF s # <<>> /\ Head(s) \in {"-", "+"} THEN Tail(s) ELSE s
        ds == DigitsPrefix(body)
    IN  IF ds = <<>> THEN NaN
        ELSE Num(IF neg THEN -DigitsVal(ds) ELSE DigitsVal(ds))

\* ToNumber, for the operands of a relational operator
ToNumber(v) ==
    CASE v.t = "number" -> v
      [] v.t = "NaN" -> NaN
      [] v.t = "undefined" -> NaN
      [] v.t = "null" -> Num(0)
      [] v.t = "boolean" -> IF v.b THEN Num(1) ELSE Num(0)
      [] v.t = "date" -> v.d
      [] v.t = "string" ->
            LET s == v.s
                neg == s # <<>> /\ Head(s) = "-"
                body == IF neg THEN Tail(s) ELSE s
            IN  IF s = <<>> THEN Num(0)
                ELSE IF body # <<>> /\ DigitsPrefix(body) = body
                     THEN Num(IF neg THEN -DigitsVal(body) ELSE DigitsVal(body))
                     ELSE NaN
      [] OTHER -> NaN

\* a < b, a > b, a >= b on numbers: every comparison with NaN is false
NumLt(a, b) == a.t = "number" /\ b.t = "number" /\ a.n < b.n
NumGt(a, b) == a.t = "number" /\ b.t = "number" /\ a.n > b.n
NumGe(a, b) == a.t = "number" /\ b.t = "number" /\ a.n >= b.n

\* a === b (two distinct arrays or objects are never identical)
StrictEq(a, b) == a.t \notin {"NaN", "array", "object", "date"} /\ a = b

\* Array.prototype.includes (SameValueZero: NaN is found)
ArrIncludes(a, x) ==
    \E i \in 1..Len(a) : IF x.t = "NaN" THEN a[i].t = "NaN" ELSE StrictEq(a[i], x)

RECURSIVE flat(_)
\* Array.prototype.flat(): one level
flat(a) ==
    IF a = <<>> THEN <<>>
    ELSE (IF Head(a).t = "array" THEN Head(a).a ELSE <<Head(a)>>) \o flat(Tail(a))

RECURSIVE Dedup(_)
\* Array.from(new Set(a)): the first occurrence of each element, in order
Dedup(a) ==
    IF a = <<>> THEN <<>>
    ELSE LET init == Dedup(SubSeq(a, 1, Len(a) - 1))
             x == a[Len(a)]
         IN  IF \E i \in 1..Len(init) : init[i] = x THEN init ELSE Append(init, x)

\* the day count of a "YYYY-MM-DD" string (months of 31 days: the count orders
\* dates as the calendar does, which is all the comparisons read)
IsIsoDate(s) ==
    /\ Len(s) = 10
    /\ s[5] = "-" /\ s[8] = "-"
    /\ \A i \in {1, 2, 3, 4, 6, 7, 9, 10} : IsDigit(s[i])
    /\ DigitsVal(SubSeq(s, 6, 7)) \in 1..12
    /\ DigitsVal(SubSeq(s, 9, 10)) \in 1..31

IsoDays(s) ==
    (DigitsVal(SubSeq(s, 1, 4)) * 12 + DigitsVal(SubSeq(s, 6, 7)) - 1) * 31
        + DigitsVal(SubSeq(s, 9, 10)) - 1

\* 1970-01-01, the time value 0
EpochDays == (1970 * 12) * 31

\* new Date(value): a Date object, Invalid Date when the value does not parse.
\* The time value is kept in days: a number (milliseconds) below one day is day 0.
NewDate(v) ==
    CASE v.t = "date" -> v
      [] v.t = "string" -> IF IsIsoDate(v.s) THEN DateObj(Num(IsoDays(v.s))) ELSE InvalidDate
      [] v.t = "number" -> DateObj(Num(EpochDays))
      [] v.t = "null" -> DateObj(Num(EpochDays))
      [] v.t = "boolean" -> DateObj(Num(EpochDays))
      [] OTHER -> InvalidDate

-----------------------------------------------------------------------------
(* The filter of DataTable, lines 71-140.                                   *)

\* row[key]
Cell(row, key) == Get(row, key)

\* the search looking only into the columns that have a filter field
searchMatches_filterableOnly(row, term) ==
    \E k \in (DOMAIN row) \cap {filterFields[i].key : i \in 1..Len(filterFields)} :
        includes(toLowerCase(String(row[k])), toLowerCase(term))

\* lines 76-80: some value of the row, as a lower-case string, holds the term
searchMatches(row, term) ==
    \E k \in DOMAIN row : includes(toLowerCase(String(row[k])), toLowerCase(term))

\* the branch for predicted_claim_type without value.flat()
claimTypeMatches_noFlat(value, rowValue) ==
    LET selected == IF value.t = "array" THEN Dedup(value.a) ELSE <<>>
    IN  ArrIncludes(selected, rowValue)

\* lines 97-101: the branch for the key predicted_claim_type
claimTypeMatches(value, rowValue) ==
    LET selected == IF value.t = "array" THEN Dedup(flat(value.a)) ELSE <<>>
    IN  ArrIncludes(selected, rowValue)

\* lines 116-120
dateRangeMatches(value, rowValue) ==
    IF ~Truthy(Prop(value, "from")) /\ ~Truthy(Prop(value, "to")) THEN TRUE
    ELSE LET rowDate == NewDate(rowValue)
         IN  IF Truthy(Prop(value, "from"))
                  /\ NumLt(ToNumber(rowDate), ToNumber(NewDate(Prop(value, "from"))))
             THEN FALSE
             ELSE IF Truthy(Prop(value, "to"))
                       /\ NumGt(ToNumber(rowDate), ToNumber(NewDate(Prop(value, "to"))))
                  THEN FALSE
                  ELSE TRUE

\* the numberRange branch with a max that the row value must stay below
numberRangeMatches_exclusiveMax(value, rowValue) ==
    LET numValue == parseFloat(rowValue)
    IN  IF Truthy(Prop(value, "min")) /\ NumLt(numValue, parseFloat(Prop(value, "min")))
        THEN FALSE
        ELSE IF Truthy(Prop(value, "max")) /\ NumGe(numValue, parseFloat(Prop(value, "max")))
             THEN FALSE
             ELSE TRUE

\* lines 123-126
numberRangeMatches(value, rowValue) ==
    LET numValue == parseFloat(rowValue)
    IN  IF Truthy(Prop(value, "min")) /\ NumLt(numValue, parseFloat(Prop(value, "min")))
        THEN FALSE
        ELSE IF Truthy(Prop(value, "max")) /\ NumGt(numValue, parseFloat(Prop(value, "max")))
             THEN FALSE
             ELSE TRUE

\* the predicate with a text branch that does not lower the case of the value
rowMatches_textCaseSensitive(field, value, row) ==
    LET rowValue == Cell(row, field.key)
    IN  IF field.key = "predicted_claim_type" /\ field.type = "multiSelect"
        THEN claimTypeMatches(value, rowValue)
        ELSE CASE field.type = "text" ->
                    includes(toLowerCase(String(rowValue)), String(value))
               [] field.type = "select" -> StrictEq(rowValue, value)
               [] field.type = "multiSelect" ->
                    value.t = "array" /\ ArrIncludes(value.a, rowValue)
               [] field.type = "dateRange" -> dateRangeMatches(value, rowValue)
               [] field.type = "numberRange" -> numberRangeMatches(value, rowValue)
               [] field.type = "slider" -> NumGe(parseFloat(rowValue), ToNumber(value))
               [] field.type = "checkbox" ->
                    IF Truthy(value) THEN Truthy(rowValue) ELSE TRUE
               [] OTHER -> TRUE

\* the predicate with a select branch that looks for the value inside the row's
rowMatches_selectContains(field, value, row) ==
    LET rowValue == Cell(row, field.key)
    IN  IF field.key = "predicted_claim_type" /\ field.type = "multiSelect"
        THEN claimTypeMatches(value, rowValue)
        ELSE CASE field.type = "text" ->
                    includes(toLowerCase(String(rowValue)), toLowerCase(String(value)))
               [] field.type = "select" -> includes(String(rowValue), String(value))
               [] field.type = "multiSelect" ->
                    value.t = "array" /\ ArrIncludes(value.a, rowValue)
               [] field.type = "dateRange" -> dateRangeMatches(value, rowValue)
               [] field.type = "numberRange" -> numberRangeMatches(value, rowValue)
               [] field.type = "slider" -> NumGe(parseFloat(rowValue), ToNumber(value))
               [] field.type = "checkbox" ->
                    IF Truthy(value) THEN Truthy(rowValue) ELSE TRUE
               [] OTHER -> TRUE

\* lines 93-136: the predicate one active filter applies to one row
rowMatches(field, value, row) ==
    LET rowValue == Cell(row, field.key)
    IN  IF field.key = "predicted_claim_type" /\ field.type = "multiSelect"
        THEN claimTypeMatches(value, rowValue)
        ELSE CASE field.type = "text" ->
                    includes(toLowerCase(String(rowValue)), toLowerCase(String(value)))
               [] field.type = "select" -> StrictEq(rowValue, value)
               [] field.type = "multiSelect" ->
                    value.t = "array" /\ ArrIncludes(value.a, rowValue)
               [] field.type = "dateRange" -> dateRangeMatches(value, rowValue)
               [] field.type = "numberRange" -> numberRangeMatches(value, rowValue)
               [] field.type = "slider" -> NumGe(parseFloat(rowValue), ToNumber(value))
               [] field.type = "checkbox" ->
                    IF Truthy(value) THEN Truthy(rowValue) ELSE TRUE
               [] OTHER -> TRUE

\* the skip test without its empty-array half
isEmptyValue_falsyOnly(value) == ~Truthy(value)

\* the predicate with a dateRange branch that calls a method of value.from
rowMatchesThrows_fromMethod(field, value, row) ==
    field.type = "dateRange" /\ Prop(value, "from").t \in {"undefined", "null"}

\* lines 93-136: the evaluation of the predicate ends in a TypeError.  The branch
\* for predicted_claim_type calls selected.includes, which only an array and a
\* string have (line 101); the range branches read a property of the value
\* (lines 116-125), which throws for undefined and null.
rowMatchesThrows(field, value, row) ==
    IF field.key = "predicted_claim_type" /\ field.type = "multiSelect"
    THEN value.t \notin {"array", "string"}
    ELSE field.type \in {"dateRange", "numberRange"} /\ value.t \in {"undefined", "null"}

\* line 86: a filter value that is skipped
isEmptyValue(value) == ~Truthy(value) \/ (value.t = "array" /\ value.a = <<>>)

\* line 89: filterFields.find(f => f.key === key), as an index (0: not found)
findField(fields, key) ==
    IF \E i \in 1..Len(fields) : fields[i].key = key
    THEN CHOOSE i \in 1..Len(fields) :
            fields[i].key = key /\ \A j \in 1..(i - 1) : fields[j].key # key
    ELSE 0

\* lines 75-81: the search step
searchFilter(rows, term) ==
    IF term # <<>>
    THEN LET keep(row) == searchMatches(row, term) IN SelectSeq(rows, keep)
    ELSE rows

\* lines 84-137, one entry of advancedFilters
applyEntry(rows, fields, key, value) ==
    IF isEmptyValue(value) THEN rows
    ELSE LET i == findField(fields, key)
         IN  IF i = 0 THEN rows
             ELSE LET keep(row) == rowMatches(fields[i], value, row)
                  IN  SelectSeq(rows, keep)

RECURSIVE applyEntries(_, _, _, _)
\* lines 84-137: Object.entries(advancedFilters).forEach.  Every entry filters
\* row by row, so the order of the entries does not change what is left; the
\* entries are taken in the order of their fields.  An entry whose key has no
\* field is skipped (line 90).
applyEntries(rows, fields, af, i) ==
    IF i > Len(fields) THEN rows
    ELSE LET key == fields[i].key
             next == IF key \in DOMAIN af /\ findField(fields, key) = i
                     THEN applyEntry(rows, fields, key, af[key])
                     ELSE rows
         IN  applyEntries(next, fields, af, i + 1)

RECURSIVE Reverse(_)
Reverse(a) == IF a = <<>> THEN <<>> ELSE Append(Reverse(Tail(a)), Head(a))

\* the filter followed by a sort that turns the rows around
computeFiltered_reversed(rows, term, af, fields) ==
    Reverse(applyEntries(searchFilter(rows, term), fields, af, 1))

\* the filter taking the first row it is given for a header row
computeFiltered_skipFirst(rows, term, af, fields) ==
    applyEntries(searchFilter(IF rows = <<>> THEN rows ELSE Tail(rows), term), fields, af, 1)

\* lines 71-140: the useMemo callback throws.  An entry is applied to the rows
\* the entries before it have left; Object.entries goes by insertion order, and
\* the entry that comes first is applied to every row the search has left.
computeThrows(rows, term, af, fields) ==
    \E key \in DOMAIN af :
        /\ ~isEmptyValue(af[key])
        /\ findField(fields, key) # 0
        /\ \E i \in 1..Len(searchFilter(rows, term)) :
              rowMatchesThrows(fields[findField(fields, key)], af[key],
                               searchFilter(rows, term)[i])

\* lines 71-140: what the useMemo callback returns
computeFiltered(rows, term, af, fields) ==
    applyEntries(searchFilter(rows, term), fields, af, 1)

-----------------------------------------------------------------------------
(* Pagination, lines 142-146.                                              *)

\* Math.ceil(n / size) for size >= 1
CeilDiv(n, size) == (n + size - 1) \div size

\* Array.prototype.slice(start, end): 0-based, end excluded, a negative index
\* counts from the end, both are cut to the array
slice(a, start, end) ==
    LET n == Len(a)
        from == IF start < 0 THEN Max(n + start, 0) ELSE Min(start, n)
        to == IF end < 0 THEN Max(n + end, 0) ELSE Min(end, n)
    IN  IF from >= to THEN <<>> ELSE SubSeq(a, from + 1, to)

\* line 143
totalPagesOf(rows, size) == CeilDiv(Len(rows), size)
\* line 144
startIndexOf(page, size) == (page - 1) * size
\* endIndex one short
endIndexOf_offByOne(page, size) == startIndexOf(page, size) + size - 1
\* line 145
endIndexOf(page, size) == startIndexOf(page, size) + size
\* line 146
paginatedDataOf(rows, page, size) == slice(rows, startIndexOf(page, size), endIndexOf(page, size))

\* line 205
delta == 2

\* the '...' item of the page list
Dots == Str(<<".", ".", ".">>)

\* lines 204-233: the page numbers and '...' items shown for a current page and a
\* page count
getVisiblePagesOf(page, pages) ==
    LET lo == Max(2, page - delta)
        hi == Min(pages - 1, page + delta)
        range == [i \in 1..Max(0, hi - lo + 1) |-> Num(lo + i - 1)]
        first == IF page - delta > 2 THEN <<Num(1), Dots>> ELSE <<Num(1)>>
        final == IF page + delta < pages - 1 THEN <<Dots, Num(pages)>>
                 ELSE IF pages > 1 THEN <<Num(pages)>>
                 ELSE <<>>
    IN  first \o range \o final

-----------------------------------------------------------------------------
(* The exporters, lines 154-193.                                           *)

RECURSIVE JoinWith(_, _)
\* Array.prototype.join(sep) on an array of strings
JoinWith(strs, sep) ==
    IF strs = <<>> THEN <<>>
    ELSE IF Len(strs) = 1 THEN strs[1]
    ELSE strs[1] \o sep \o JoinWith(Tail(strs), sep)

RECURSIVE doubleQuotes(_)
\* line 164: replace(/"/g, '""')
doubleQuotes(str) ==
    IF str = <<>> THEN <<>>
    ELSE (IF Head(str) = "\"" THEN <<"\"", "\"">> ELSE <<Head(str)>>) \o doubleQuotes(Tail(str))

\* the cell with `value || ''` left out: String(value) in quotes
csvCell_noDefault(value) == <<"\"">> \o doubleQuotes(String(value)) \o <<"\"">>

\* line 164: `"${String(value || '').replace(/"/g, '""')}"`
csvCell(value) ==
    <<"\"">> \o doubleQuotes(String(IF Truthy(value) THEN value ELSE Str(<<>>))) \o <<"\"">>

\* lines 161-165: the line of one row
csvRowOf(row, cols) ==
    JoinWith([c \in 1..Len(cols) |-> csvCell(Get(row, cols[c].key))], <<",">>)

\* lines 156-167: csvContent
csvContentOf(rows, cols) ==
    JoinWith(<<JoinWith([c \in 1..Len(cols) |-> cols[c].label], <<",">>)>>
                 \o [i \in 1..Len(rows) |-> csvRowOf(rows[i], cols)],
             <<"\n">>)

\* the property names of the rows, in the order the data source lists them
RowKeys == <<"name", "grade", "tag", "predicted_claim_type", "date", "amount", "score", "vip", "memo">>

\* a property name as the characters JSON.stringify writes
KeyChars(key) ==
    CASE key = "name" -> <<"n", "a", "m", "e">>
      [] key = "grade" -> <<"g", "r", "a", "d", "e">>
      [] key = "tag" -> <<"t", "a", "g">>
      [] key = "predicted_claim_type" -> <<"p", "r", "e", "d", "i", "c", "t", "e", "d", "_", "c", "l", "a", "i", "m", "_", "t", "y", "p", "e">>
      [] key = "date" -> <<"d", "a", "t", "e">>
      [] key = "amount" -> <<"a", "m", "o", "u", "n", "t">>
      [] key = "score" -> <<"s", "c", "o", "r", "e">>
      [] key = "vip" -> <<"v", "i", "p">>
      [] key = "memo" -> <<"m", "e", "m", "o">>

RECURSIVE jsonEscape(_)
\* JSON.stringify of the characters of a string: " and \ are escaped
jsonEscape(str) ==
    IF str = <<>> THEN <<>>
    ELSE (IF Head(str) \in {"\"", "\\"} THEN <<"\\", Head(str)>> ELSE <<Head(str)>>)
             \o jsonEscape(Tail(str))

\* JSON.stringify of a scalar value (NaN prints as null)
jsonScalar(v) ==
    CASE v.t = "string" -> <<"\"">> \o jsonEscape(v.s) \o <<"\"">>
      [] v.t = "number" -> IntToStr(v.n)
      [] v.t = "boolean" -> IF v.b THEN Chars("true") ELSE Chars("false")
      [] OTHER -> Chars("null")

\* JSON.stringify(row, null, 2) inside an array: the properties in their order,
\* those that are undefined left out, indented by 4 and closed at 2
jsonObject(row) ==
    LET present(k) == k \in DOMAIN row /\ row[k].t # "undefined"
        ks == SelectSeq(RowKeys, present)
        prop(k) == <<" ", " ", " ", " ", "\"">> \o KeyChars(k) \o <<"\"", ":", " ">>
                       \o jsonScalar(row[k])
    IN  IF ks = <<>> THEN <<"{", "}">>
        ELSE <<"{", "\n">> \o JoinWith([i \in 1..Len(ks) |-> prop(ks[i])], <<",", "\n">>)
                 \o <<"\n", " ", " ", "}">>

\* line 183: JSON.stringify(filteredData, null, 2)
jsonContentOf(rows) ==
    IF rows = <<>> THEN <<"[", "]">>
    ELSE <<"[", "\n">>
             \o JoinWith([i \in 1..Len(rows) |-> <<" ", " ">> \o jsonObject(rows[i])],
                         <<",", "\n">>)
             \o <<"\n", "]">>

-----------------------------------------------------------------------------
(* The inputs of the model: the rows the parent page may pass, the field   *)
(* descriptors it passes, and what the user may type.                      *)

Row1 == [name |-> Str(<<"A", "b">>), grade |-> Str(<<"A">>), tag |-> Str(<<"x">>),
         vip |-> Bool(TRUE)]
\* a row with a null name and no vip property
Row2 == [name |-> Null, grade |-> Str(<<"A", "+">>), tag |-> Str(<<"y">>)]

Rows == {Row1, Row2}

\* every sequence of rows of length at most n
SeqsUpTo(S, n) == UNION {[1..k -> S] : k \in 0..n}

DataSets == SeqsUpTo(Rows, MaxLen)

Field(key, type, options) == [key |-> key, type |-> type, options |-> options]

\* the filterFields props of two tables: one page filters by a text and a select
\* field, another by a multiSelect and a checkbox field
TextSelectFields ==
    << Field("name", "text", <<>>),
       Field("grade", "select", <<Str(<<"A">>)>>) >>
MultiCheckFields ==
    << Field("tag", "multiSelect", <<Str(<<"x">>)>>),
       Field("vip", "checkbox", <<>>) >>
Schemas == {TextSelectFields, MultiCheckFields}

\* the columns prop: three columns of the table
columns ==
    << [key |-> "name", label |-> <<"N", "a", "m", "e">>],
       [key |-> "score", label |-> <<"S", "c", "o", "r", "e">>],
       [key |-> "vip", label |-> <<"V", "i", "p">>] >>

\* what the user may type into the search box and into a text filter
SearchTerms == {<<>>, <<"b">>}
TextInputs == {<<>>, <<"B">>}

\* the page numbers handlePageChange is called with
PageInputs == 0..(MaxLen + 1)

\* the history variable `last`: the handler that ran last (op), the page it was
\* asked for (n), the filter key and the widget's input (key, v), the
\* currentPage it found (page), and the value handed to handleFilterChange
\* last for each key since the last reset (set)
NoEvent == [op |-> "mount", n |-> 0, key |-> "", v |-> Undefined, page |-> 1,
            set |-> EmptyObj]
Event(op, n, key, v) ==
    [op |-> op, n |-> n, key |-> key, v |-> v, page |-> currentPage, set |-> last.set]
FilterEvent(key, v, stored) ==
    [Event("setFilterValue", 0, key, v) EXCEPT !.set = Spread(last.set, key, stored)]
ResetEvent == [Event("resetFilters", 0, "", Undefined) EXCEPT !.set = EmptyObj]

\* the value of the select's "all" item (line 457)
AllItem == Str(<<"a", "l", "l">>)

-----------------------------------------------------------------------------
(* The state as a render of DataTable reads it.                            *)

\* line 143
totalPages == totalPagesOf(filteredData, pageSize)
\* line 146
paginatedData == paginatedDataOf(filteredData, currentPage, pageSize)

\* the state after DataTable and AdvancedFilter are mounted: the first render is
\* committed and the effect of line 149 has run (setCurrentPage(1) changes nothing)
Init ==
    /\ data = <<>>
    /\ pageSize \in 1..MaxPageSize
    /\ filterFields \in Schemas
    /\ searchTerm = <<>>
    /\ advancedFilters = EmptyObj
    /\ currentPage = 1
    /\ filters = EmptyObj
    /\ filteredData = computeFiltered(<<>>, <<>>, EmptyObj, filterFields)
    /\ rendered = [searchTerm |-> <<>>, advancedFilters |-> EmptyObj, currentPage |-> 1,
                   filters |-> filters]
    /\ dirty = {}
    /\ pc = "idle"
    /\ last = NoEvent

\* a handler has run: React renders again when a state cell or prop was set
Schedule(d) == IF d = {} THEN "idle" ELSE "render"

-----------------------------------------------------------------------------
(* DataTable's handlers.                                                   *)

\* line 245: onChange of the search box, setSearchTerm(e.target.value)
setSearchTerm(t) ==
    /\ pc = "idle"
    /\ t # searchTerm
    /\ searchTerm' = t
    /\ dirty' = {"searchTerm"}
    /\ pc' = Schedule(dirty')
    /\ last' = Event("setSearchTerm", 0, "", Undefined)
    /\ UNCHANGED <<data, pageSize, filterFields, advancedFilters, currentPage, filters,
                   filteredData, rendered>>

\* handlePageChange with the upper end of the range check left out
handlePageChange_noUpperBound(page) ==
    /\ pc = "idle"
    /\ currentPage' = IF page >= 1 THEN page ELSE currentPage
    /\ dirty' = IF currentPage' # currentPage THEN {"currentPage"} ELSE {}
    /\ pc' = Schedule(dirty')
    /\ last' = Event("setPage", page, "", Undefined)
    /\ UNCHANGED <<data, pageSize, filterFields, searchTerm, advancedFilters, filters,
                   filteredData, rendered>>

\* lines 196-200
handlePageChange(page) ==
    /\ pc = "idle"
    /\ currentPage' = IF page >= 1 /\ page <= totalPages THEN page ELSE currentPage
    /\ dirty' = IF currentPage' # currentPage THEN {"currentPage"} ELSE {}
    /\ pc' = Schedule(dirty')
    /\ last' = Event("setPage", page, "", Undefined)
    /\ UNCHANGED <<data, pageSize, filterFields, searchTerm, advancedFilters, filters,
                   filteredData, rendered>>

\* the CSV of the rows on the page shown
exportToCSV_visiblePage ==
    /\ pc = "idle"
    /\ last' = Event("exportToCSV", 0, "", Str(csvContentOf(paginatedData, columns)))
    /\ UNCHANGED <<data, pageSize, filterFields, searchTerm, advancedFilters, currentPage,
                   filters, filteredData, rendered, dirty, pc>>

\* lines 154-179: the CSV button; the content handed to the download is kept in
\* the history variable
exportToCSV ==
    /\ pc = "idle"
    /\ last' = Event("exportToCSV", 0, "", Str(csvContentOf(filteredData, columns)))
    /\ UNCHANGED <<data, pageSize, filterFields, searchTerm, advancedFilters, currentPage,
                   filters, filteredData, rendered, dirty, pc>>

\* lines 182-193: the JSON button
exportToJSON ==
    /\ pc = "idle"
    /\ last' = Event("exportToJSON", 0, "", Str(jsonContentOf(filteredData)))
    /\ UNCHANGED <<data, pageSize, filterFields, searchTerm, advancedFilters, currentPage,
                   filters, filteredData, rendered, dirty, pc>>

\* line 204, as the render reads it
getVisiblePages == getVisiblePagesOf(currentPage, totalPages)

\* lines 338, 344-348: the "previous" button, there when totalPages > 1 and
\* disabled on page 1
previousPage ==
    /\ totalPages > 1
    /\ currentPage # 1
    /\ handlePageChange(currentPage - 1)

\* lines 338, 373-377: the "next" button, disabled on the last page
nextPage ==
    /\ totalPages > 1
    /\ currentPage # totalPages
    /\ handlePageChange(currentPage + 1)

\* lines 356-369: the link of a page number of the list
pageLink(i) ==
    /\ totalPages > 1
    /\ i \in 1..Len(getVisiblePages)
    /\ getVisiblePages[i] # Dots
    /\ handlePageChange(getVisiblePages[i].n)

\* the parent renders DataTable with another `data` array (lines 52-53)
replaceRecords(newRecords) ==
    /\ pc = "idle"
    /\ data' = newRecords
    /\ dirty' = {"data"}
    /\ pc' = Schedule(dirty')
    /\ last' = Event("replaceRecords", 0, "", Undefined)
    /\ UNCHANGED <<pageSize, filterFields, searchTerm, advancedFilters, currentPage,
                   filters, filteredData, rendered>>

-----------------------------------------------------------------------------
(* AdvancedFilter's handlers.                                              *)

\* the event of a widget is a discrete one (a click, a key, a change), whose
\* render React flushes before the next event, together with what was pending
DiscreteEvent == dirty' = (dirty \ {"continuous"}) \cup {"filters", "advancedFilters"}

\* the event of a widget is a continuous one (the move of a pointer)
ContinuousEvent == dirty' = dirty \cup {"filters", "advancedFilters", "continuous"}

\* handleFilterChange with the spread of the other filters left out
handleFilterChange_noSpread(key, value) ==
    LET newFilters == Spread(EmptyObj, key, value)
    IN  /\ filters' = newFilters
        /\ advancedFilters' = newFilters
        /\ {"filters", "advancedFilters"} \subseteq dirty'
        /\ pc' = Schedule(dirty')
        /\ UNCHANGED <<data, pageSize, filterFields, searchTerm, currentPage,
                       filteredData, rendered>>

\* lines 426-430, with onFilterChange = setAdvancedFilters (line 268).  The
\* `filters` the handler spreads is the one its render closed over.
handleFilterChange(key, value) ==
    LET newFilters == Spread(rendered.filters, key, value)
    IN  /\ filters' = newFilters
        /\ advancedFilters' = newFilters
        /\ {"filters", "advancedFilters"} \subseteq dirty'
        /\ pc' = Schedule(dirty')
        /\ UNCHANGED <<data, pageSize, filterFields, searchTerm, currentPage,
                       filteredData, rendered>>

\* handleReset with the call of onReset left out
handleReset_localOnly ==
    /\ pc = "idle"
    /\ DOMAIN filters # {}
    /\ filters' = EmptyObj
    /\ dirty' = {"filters"}
    /\ pc' = Schedule(dirty')
    /\ last' = ResetEvent
    /\ UNCHANGED <<data, pageSize, filterFields, searchTerm, advancedFilters, currentPage,
                   filteredData, rendered>>

\* lines 432-435, with onReset = () => setAdvancedFilters({}) (line 269); the
\* button is there when Object.keys(filters).length > 0 (line 595)
handleReset ==
    /\ pc = "idle"
    /\ DOMAIN filters # {}
    /\ filters' = EmptyObj
    /\ advancedFilters' = EmptyObj
    /\ dirty' = {"filters", "advancedFilters"}
    /\ pc' = Schedule(dirty')
    /\ last' = ResetEvent
    /\ UNCHANGED <<data, pageSize, filterFields, searchTerm, currentPage,
                   filteredData, rendered>>

\* const value = filters[field.key]  (line 438), as of the last render
widgetValue(field) == Get(rendered.filters, field.key)

\* a widget takes an event: React is idle, or the render that is pending was
\* scheduled by a continuous event (the drag of a slider), which React does not
\* flush before the next event is handled
Ready == pc = "idle" \/ (pc = "render" /\ "continuous" \in dirty)

\* lines 441-448: the text input shows value || '' and reports what is typed
textInput(field, s) ==
    /\ Ready
    /\ field.type = "text"
    /\ s # (IF Truthy(widgetValue(field)) THEN widgetValue(field).s ELSE <<>>)
    /\ DiscreteEvent
    /\ handleFilterChange(field.key, Str(s))
    /\ last' = FilterEvent(field.key, Str(s), Str(s))

\* lines 450-465: the select shows value || 'all'; choosing 'all' stores ''
selectChange(field, val) ==
    /\ Ready
    /\ field.type = "select"
    /\ val # (IF Truthy(widgetValue(field)) THEN widgetValue(field) ELSE AllItem)
    /\ DiscreteEvent
    /\ handleFilterChange(field.key, IF val = AllItem THEN Str(<<>>) ELSE val)
    /\ last' = FilterEvent(field.key, val, IF val = AllItem THEN Str(<<>>) ELSE val)

\* lines 467-489: one checkbox per option; checking appends the option,
\* clearing removes it
multiSelectToggle(field, option) ==
    LET value == widgetValue(field)
        currentValues == IF Truthy(value) THEN value.a ELSE <<>>
        checked == ~ArrIncludes(currentValues, option)
        differs(v) == v # option
        newValues == IF checked THEN Append(currentValues, option)
                     ELSE SelectSeq(currentValues, differs)
    IN  /\ Ready
        /\ field.type = "multiSelect"
        /\ DiscreteEvent
        /\ handleFilterChange(field.key, Arr(newValues))
        /\ last' = FilterEvent(field.key, Arr(newValues), Arr(newValues))

\* lines 563-575: the checkbox shows value || false
checkboxToggle(field) ==
    LET checked == ~Truthy(widgetValue(field))
    IN  /\ Ready
        /\ field.type = "checkbox"
        /\ DiscreteEvent
        /\ handleFilterChange(field.key, Bool(checked))
        /\ last' = FilterEvent(field.key, Bool(checked), Bool(checked))

\* lines 545-561: the slider shows value || field.min and reports val[0] while
\* the thumb is dragged, a continuous event
sliderChange(field, v) ==
    /\ Ready
    /\ field.type = "slider"
    /\ v \in field.min..field.max
    /\ v # (IF Truthy(widgetValue(field)) THEN widgetValue(field).n ELSE field.min)
    /\ ContinuousEvent
    /\ handleFilterChange(field.key, Num(v))
    /\ last' = FilterEvent(field.key, Num(v), Num(v))

-----------------------------------------------------------------------------
(* React's steps.                                                          *)

\* the useMemo with `data` missing from its dependencies
memoDepsChanged_noData == dirty \cap {"searchTerm", "advancedFilters", "filterFields"} # {}

\* line 140: the dependencies of the useMemo, compared with Object.is
memoDepsChanged == dirty \cap {"data", "searchTerm", "advancedFilters", "filterFields"} # {}

\* the useEffect with advancedFilters missing from its dependencies
effectDepsChanged_searchOnly == dirty \cap {"searchTerm"} # {}

\* line 151: the dependencies of the useEffect
effectDepsChanged == dirty \cap {"searchTerm", "advancedFilters"} # {}

\* DataTable renders and React commits it: the memo is recomputed when one of
\* its dependencies was set, and the effect is scheduled when one of its was.
\* A render whose memo callback throws is not committed.
render ==
    /\ pc = "render"
    /\ IF memoDepsChanged /\ computeThrows(data, searchTerm, advancedFilters, filterFields)
       THEN /\ pc' = "error"
            /\ UNCHANGED <<filteredData, rendered, dirty>>
       ELSE /\ filteredData' =
                  IF memoDepsChanged
                  THEN computeFiltered(data, searchTerm, advancedFilters, filterFields)
                  ELSE filteredData
            /\ rendered' = [searchTerm |-> searchTerm, advancedFilters |-> advancedFilters,
                            currentPage |-> currentPage, filters |-> filters]
            /\ dirty' = {}
            /\ pc' = IF effectDepsChanged THEN "effect" ELSE "idle"
    /\ UNCHANGED <<data, pageSize, filterFields, searchTerm, advancedFilters, currentPage,
                   filters, last>>

\* lines 149-151: the effect runs after the commit, setCurrentPage(1)
resetPageEffect ==
    /\ pc = "effect"
    /\ currentPage' = 1
    /\ dirty' = IF currentPage # 1 THEN {"currentPage"} ELSE {}
    /\ pc' = Schedule(dirty')
    /\ UNCHANGED <<data, pageSize, filterFields, searchTerm, advancedFilters, filters,
                   filteredData, rendered, last>>

Next ==
    \/ \E t \in SearchTerms : setSearchTerm(t)
    \/ \E page \in PageInputs : handlePageChange(page)
    \/ \E newRecords \in DataSets : replaceRecords(newRecords)
    \/ \E i \in 1..Len(filterFields) : \E s \in TextInputs : textInput(filterFields[i], s)
    \/ \E i \in 1..Len(filterFields) :
          \E val \in {AllItem} \cup {filterFields[i].options[j] :
                                j \in 1..Len(filterFields[i].options)} :
             selectChange(filterFields[i], val)
    \/ \E i \in 1..Len(filterFields) : \E j \in 1..Len(filterFields[i].options) :
          multiSelectToggle(filterFields[i], filterFields[i].options[j])
    \/ \E i \in 1..Len(filterFields) : checkboxToggle(filterFields[i])
    \/ handleReset
    \/ exportToCSV
    \/ exportToJSON
    \/ render
    \/ resetPageEffect

Spec == Init /\ [][Next]_vars

-----------------------------------------------------------------------------
(* The filter and the pagination as functions: the table is mounted with   *)
(* rows, a search term and filter values drawn from the sets below, over a *)
(* schema with one field of every kind, and rendered once.                 *)

Iso(y1, y2, y3, y4, m1, m2, d1, d2) == <<y1, y2, y3, y4, "-", m1, m2, "-", d1, d2>>
Jan15 == Iso("2", "0", "2", "4", "0", "1", "1", "5")
Feb01 == Iso("2", "0", "2", "4", "0", "2", "0", "1")
Mar01 == Iso("2", "0", "2", "4", "0", "3", "0", "1")
\* the Date the calendar widget hands over for a day
Day(iso) == DateObj(Num(IsoDays(iso)))

FRow1 == [name |-> Str(<<"A", "b">>), grade |-> Str(<<"A">>), tag |-> Str(<<"x">>),
          predicted_claim_type |-> Str(<<"p">>), date |-> Str(Jan15),
          amount |-> Num(-1), score |-> Num(0), vip |-> Bool(TRUE)]
\* a row with a quote in its name and a column (memo) that no filter field and
\* no table column names
FRow2 == [name |-> Str(<<"b", "\"">>), grade |-> Str(<<"B">>), tag |-> Str(<<"y">>),
          predicted_claim_type |-> Str(<<"q">>), date |-> Str(Mar01),
          amount |-> Str(<<"3">>), score |-> Num(-1), vip |-> Bool(FALSE),
          memo |-> Str(<<"z">>)]
\* a row with null, unparsable and missing values
FRow3 == [name |-> Null, grade |-> Str(<<"A">>), tag |-> Str(<<"y">>),
          predicted_claim_type |-> Null, date |-> Str(<<"n", "o", "-", "d">>),
          amount |-> Str(<<"x">>), score |-> Null]
FilterRows == {FRow1, FRow2, FRow3}

\* one field of every kind, the field predicted_claim_type and a field of a
\* kind the switch does not know
AllKindsFields ==
    << Field("name", "text", <<>>),
       Field("grade", "select", <<Str(<<"A">>), Str(<<"B">>)>>),
       Field("tag", "multiSelect", <<Str(<<"x">>), Str(<<"y">>)>>),
       Field("predicted_claim_type", "multiSelect",
             <<Str(<<"p">>), Arr(<<Str(<<"q">>), Str(<<"p">>)>>)>>),
       Field("date", "dateRange", <<>>),
       Field("amount", "numberRange", <<>>),
       Field("score", "slider", <<>>),
       Field("vip", "checkbox", <<>>),
       Field("name", "select", <<>>),
       Field("note", "rating", <<>>) >>

Range(lo, loV, hi, hiV) == Obj([k \in {lo, hi} |-> IF k = lo THEN loV ELSE hiV])

\* the values the widgets of AllKindsFields can have stored under each key
FilterValues(key) ==
    CASE key = "name" -> {Str(<<>>), Str(<<"B">>)}
      [] key = "grade" -> {Str(<<>>), Str(<<"A">>)}
      [] key = "tag" -> {Arr(<<>>), Arr(<<Str(<<"x">>)>>), Arr(<<Str(<<"y">>), Str(<<"x">>)>>)}
      [] key = "predicted_claim_type" ->
            {Arr(<<Str(<<"p">>), Arr(<<Str(<<"q">>), Str(<<"p">>)>>)>>)}
      [] key = "date" -> {Range("from", Day(Feb01), "from", Day(Feb01)),
                          Range("from", Undefined, "to", Day(Feb01)),
                          Range("from", Day(Jan15), "to", Day(Feb01))}
      [] key = "amount" -> {Range("min", Str(<<"3">>), "min", Str(<<"3">>)),
                            Range("min", Str(<<>>), "max", Str(<<"-", "1">>)),
                            Range("min", Str(<<"0">>), "max", Str(<<"3">>))}
      [] key = "score" -> {Num(0), Num(1)}
      [] key = "vip" -> {Bool(TRUE), Bool(FALSE)}
      [] key = "note" -> {Str(<<"B">>)}
      [] key = "other" -> {Str(<<"B">>)}

\* what the user may type into the search box of this table
FilterSearchTerms == SearchTerms \cup {<<"Z">>}

\* the keys of AllKindsFields, and a key that has no field
FilterKeys == {"name", "grade", "tag", "predicted_claim_type", "date", "amount", "score",
               "vip", "note", "other"}

\* the filter objects with at most two keys
FilterStates ==
    {EmptyObj}
    \cup {Spread(EmptyObj, k, v) : <<k, v>> \in
            UNION {{<<k, v>> : v \in FilterValues(k)} : k \in FilterKeys}}
    \cup UNION {UNION {{Spread(Spread(EmptyObj, k1, v1), k2, v2) :
                          <<v1, v2>> \in FilterValues(k1) \X FilterValues(k2)} :
                       k2 \in FilterKeys \ {k1}} : k1 \in FilterKeys}

InitFilter ==
    /\ data \in SeqsUpTo(FilterRows, MaxLen)
    /\ pageSize \in 1..MaxPageSize
    /\ filterFields = AllKindsFields
    /\ searchTerm \in FilterSearchTerms
    /\ advancedFilters \in FilterStates
    \* a search term comes with the filter of at most one key
    /\ searchTerm = <<>> \/ Cardinality(DOMAIN advancedFilters) <= 1
    /\ filters = advancedFilters
    /\ currentPage = 1
    /\ filteredData = <<>>
    /\ rendered = [searchTerm |-> <<>>, advancedFilters |-> EmptyObj, currentPage |-> 1,
                   filters |-> filters]
    /\ dirty = {"data", "searchTerm", "advancedFilters"}
    /\ pc = "render"
    /\ last = NoEvent

NextFilter ==
    \/ render
    \/ resetPageEffect
    \/ exportToCSV
    \/ exportToJSON

SpecFilter == InitFilter /\ [][NextFilter]_vars

RECURSIVE IsSubsequence(_, _)
\* f is r with some of its elements left out
IsSubsequence(f, r) ==
    IF f = <<>> THEN TRUE
    ELSE IF r = <<>> THEN FALSE
    ELSE IF Head(f) = Head(r) THEN IsSubsequence(Tail(f), Tail(r))
    ELSE IsSubsequence(f, Tail(r))

\* C8: the filtered rows are a subsequence of the data: only rows of the data,
\* none more often than there, in their order there.
C8_Subsequence ==
    pc # "render" => IsSubsequence(filteredData, data)

C8_Witness ==
    /\ pc = "idle"
    /\ Len(data) = 3
    /\ filteredData = <<data[1], data[3]>>
    /\ data[1] # data[3]
    /\ data[2] \notin {data[1], data[3]}
    /\ searchTerm # <<>>
    /\ DOMAIN advancedFilters # {}

\* C9: filtering the filtered rows again, with the same search term and filter
\* values, leaves them as they are.
C9_Idempotent ==
    pc # "render"
        => computeFiltered(filteredData, searchTerm, advancedFilters, filterFields)
              = filteredData

C9_Witness ==
    /\ pc = "idle"
    /\ searchTerm # <<>>
    /\ \E k \in DOMAIN advancedFilters :
          ~isEmptyValue(advancedFilters[k]) /\ findField(filterFields, k) # 0
    /\ Len(filteredData) = 2
    /\ Len(data) = 3

RECURSIVE ConcatPages(_, _, _)
\* the pages 1..n of rows, one after the other
ConcatPages(rows, size, n) ==
    IF n = 0 THEN <<>>
    ELSE ConcatPages(rows, size, n - 1) \o paginatedDataOf(rows, n, size)

\* C10: page p holds the rows (p-1)*pageSize+1 .. p*pageSize of the filtered rows
\* (as many of them as there are), and the pages 1..totalPages, one after the
\* other, are the filtered rows.
C10_PagesPartition ==
    pc # "render" =>
        /\ \A p \in 1..totalPages :
              LET first == (p - 1) * pageSize
                  count == Min(pageSize, Len(filteredData) - first)
              IN  paginatedDataOf(filteredData, p, pageSize)
                     = [i \in 1..count |-> filteredData[first + i]]
        /\ ConcatPages(filteredData, pageSize, totalPages) = filteredData

C10_Witness ==
    /\ pc = "idle"
    /\ pageSize = 2
    /\ Len(filteredData) = 3
    /\ totalPages = 2
    /\ paginatedDataOf(filteredData, 2, pageSize) = <<filteredData[3]>>
    /\ filteredData[1] # filteredData[2] /\ filteredData[2] # filteredData[3]

-----------------------------------------------------------------------------
(* The claims about the table view, checked under Spec.                    *)

\* a handler has run and React has finished rendering what it changed
Settled(op) == pc = "idle" /\ last.op = op

\* C1: in every settled state, 1 <= currentPage <= max(1, totalPages), also
\* after the data prop is replaced by a smaller or an empty collection.
C1_PageInRange ==
    pc = "idle" => (1 <= currentPage /\ currentPage <= Max(1, totalPages))

\* C2: a change of searchTerm (setSearchTerm) or of the filter values
\* (setFilterValue, resetFilters) ends with currentPage = 1, whatever the page
\* was before.
C2_ChangeResetsPage ==
    (pc = "idle" /\ last.op \in {"setSearchTerm", "setFilterValue", "resetFilters"})
        => currentPage = 1

C2_Witness ==
    /\ pc = "idle"
    /\ last.op \in {"setSearchTerm", "setFilterValue", "resetFilters"}
    /\ last.page > 1
    /\ currentPage = 1
    /\ totalPages > 1

\* C3: no committed render shows the new searchTerm / filter values applied
\* while currentPage is still the old page above 1.
C3_NoStaleRender ==
    (/\ last.op \in {"setSearchTerm", "setFilterValue"}
     /\ rendered.searchTerm = searchTerm
     /\ rendered.advancedFilters = advancedFilters)
        => rendered.currentPage = 1

Clamp(n, lo, hi) == Min(Max(n, lo), hi)

\* C4 as claimed: setPage(n) sets currentPage to clamp(n, 1, totalPages) (the
\* upper end read as max(1, totalPages), so that an empty table is not what
\* refutes it).
C4_Clamps ==
    Settled("setPage") => currentPage = Clamp(last.n, 1, Max(1, totalPages))

\* C4 as amended: setPage(n) sets currentPage to n when 1 <= n <= totalPages and
\* leaves it as it was for every other n; searchTerm, the filter values and the
\* filtered rows are left unchanged.
C4_InRangeOrIgnored ==
    [][(pc = "idle" /\ last'.op = "setPage")
         => /\ currentPage' = IF 1 <= last'.n /\ last'.n <= totalPages
                              THEN last'.n ELSE currentPage
            /\ UNCHANGED <<searchTerm, advancedFilters, filteredData>>]_vars

C4_Witness ==
    /\ Settled("setPage")
    /\ totalPages >= 2
    /\ last.n > totalPages
    /\ currentPage = last.page
    /\ currentPage < totalPages

\* C5: replaceRecords leaves searchTerm and the filter values unchanged, and the
\* render that follows shows the existing search and filters applied to the
\* new records.
C5_ReplaceKeepsViewState ==
    [][/\ (pc = "idle" /\ last'.op = "replaceRecords")
            => UNCHANGED <<searchTerm, advancedFilters, filters>>
       /\ (pc = "render" /\ last.op = "replaceRecords")
            => filteredData' = computeFiltered(data, searchTerm, advancedFilters, filterFields)
      ]_vars

C5_Witness ==
    /\ Settled("replaceRecords")
    /\ searchTerm # <<>>
    /\ \E k \in DOMAIN advancedFilters : ~isEmptyValue(advancedFilters[k])
    /\ filteredData # <<>>
    /\ Len(filteredData) < Len(data)

\* C6: resetFilters empties the filter values and ends on page 1 with searchTerm
\* untouched; the filtered rows are then the rows matching the search term alone.
C6_ResetFilters ==
    [][/\ (pc = "idle" /\ last'.op = "resetFilters")
            => (advancedFilters' = EmptyObj /\ UNCHANGED searchTerm)
       /\ (pc' = "idle" /\ last'.op = "resetFilters")
            => /\ currentPage' = 1
               /\ advancedFilters' = EmptyObj
               /\ filteredData' = searchFilter(data', searchTerm')
      ]_vars

C6_Witness ==
    /\ Settled("resetFilters")
    /\ last.page > 1
    /\ searchTerm # <<>>
    /\ filteredData # <<>>
    /\ Len(filteredData) < Len(data)

\* the widget's input is empty or the sentinel: '', the select's "all", [], false
EmptyOrSentinel(v) == isEmptyValue(v) \/ v = AllItem

-----------------------------------------------------------------------------
(* The page count.                                                         *)

\* ceil(n / size): the least k with k * size >= n
Ceil(n, size) == CHOOSE k \in 0..n : k * size >= n /\ \A j \in 0..(k - 1) : j * size < n

\* C11: totalPages = max(1, ceil(filteredCount / pageSize)) for every count of
\* filtered rows and every pageSize >= 1: it is 1, not 0, when no row is left.
C11_TotalPagesAtLeastOne ==
    pc = "idle" => totalPages = Max(1, Ceil(Len(filteredData), pageSize))

-----------------------------------------------------------------------------
(* The filter kinds as they are claimed to match, stated without the code's *)
(* operators: these definitions are what the claims below compare the      *)
(* filtered rows of the model with.                                        *)

SameLetter(c, d) ==
    c = d \/ \E i \in 1..Len(UpperCase) : {c, d} = {UpperCase[i], LowerCase[i]}

\* s contains sub as a substring, ignoring case
ContainsIgnoreCase(s, sub) ==
    \E i \in 0..(Len(s) - Len(sub)) : \A j \in 1..Len(sub) : SameLetter(s[i + j], sub[j])

\* the members of a multiSelect value, those of its nested arrays included
Members(v) ==
    IF v.t # "array" THEN {}
    ELSE UNION {IF v.a[i].t = "array"
                THEN {v.a[i].a[j] : j \in 1..Len(v.a[i].a)}
                ELSE {v.a[i]} : i \in 1..Len(v.a)}

\* a bound or value that is not there
Absent(v) == v \in {Undefined, Null, Str(<<>>)}

\* a filter value that is empty: absent, '' or []
EmptyFilterValue(v) == Absent(v) \/ v = Arr(<<>>)

\* x, a parsed number or NaN, lies within the bounds that are present
WithinBounds(x, lo, hi) ==
    /\ x.t = "number"
    /\ Absent(lo) \/ x.n >= lo.n
    /\ Absent(hi) \/ x.n <= hi.n

\* the bound of a range as a number (or the absent bound itself)
DateBound(b) == IF Absent(b) THEN b ELSE NewDate(b).d
NumberBound(b) == IF Absent(b) THEN b ELSE parseFloat(b)

\* matches(record, descriptor, value) of section 4.1
Matches(field, value, row) ==
    LET rowValue == Get(row, field.key)
    IN  CASE field.type = "text" -> ContainsIgnoreCase(String(rowValue), String(value))
          [] field.type = "select" -> rowValue = value
          [] field.type = "multiSelect" -> rowValue \in Members(value)
          [] field.type = "dateRange" ->
                (Absent(Prop(value, "from")) /\ Absent(Prop(value, "to")))
                \/ WithinBounds(NewDate(rowValue).d, DateBound(Prop(value, "from")),
                                DateBound(Prop(value, "to")))
          [] field.type = "numberRange" ->
                (Absent(Prop(value, "min")) /\ Absent(Prop(value, "max")))
                \/ WithinBounds(parseFloat(rowValue), NumberBound(Prop(value, "min")),
                                NumberBound(Prop(value, "max")))
          [] field.type = "slider" -> WithinBounds(parseFloat(rowValue), value, Undefined)
          [] field.type = "checkbox" -> (value = Bool(TRUE)) => Truthy(rowValue)
          [] OTHER -> TRUE

\* searchMatches(record, term) of section 4.2
SearchMatches(row, term) ==
    term = <<>> \/ \E k \in DOMAIN row : ContainsIgnoreCase(String(row[k]), term)

HasDescriptor(key) == \E i \in 1..Len(filterFields) : filterFields[i].key = key

\* the descriptor of a key: the first field with that key
Descriptor(key) ==
    filterFields[CHOOSE i \in 1..Len(filterFields) :
                    filterFields[i].key = key /\ \A j \in 1..(i - 1) : filterFields[j].key # key]

\* the filter values with one key taken out
Without(af, key) == [k \in (DOMAIN af) \ {key} |-> af[k]]

\* the filtered rows when the filter under key is not there
FilteredWithout(key) ==
    computeFiltered(data, searchTerm, Without(advancedFilters, key), filterFields)

\* C12: a row is among the filtered rows iff the search term matches it and
\* every filter that is present, non-empty and has a descriptor matches it (the
\* filters of different fields are combined by AND), so that an absent or empty
\* filter excludes no row.
C12_AndComposition ==
    pc # "render" =>
        LET keep(row) ==
                /\ SearchMatches(row, searchTerm)
                /\ \A k \in DOMAIN advancedFilters :
                      (~EmptyFilterValue(advancedFilters[k]) /\ HasDescriptor(k))
                          => Matches(Descriptor(k), advancedFilters[k], row)
        IN  filteredData = SelectSeq(data, keep)

\* the filter under key is there, has a descriptor of the given kind, and is not empty
ActiveOfKind(key, kind) ==
    /\ key \in DOMAIN advancedFilters
    /\ HasDescriptor(key)
    /\ Descriptor(key).type = kind
    /\ ~EmptyFilterValue(advancedFilters[key])

\* C13: the range filters fail closed: with a dateRange filter that has from or
\* to set, no row whose value does not parse as a date is among the filtered
\* rows; with a numberRange filter that has min or max set, no row whose value
\* does not parse as a number is.
C13_RangesFailClosed ==
    pc # "render" =>
        \A k \in DOMAIN advancedFilters : \A i \in 1..Len(filteredData) :
            /\ (/\ ActiveOfKind(k, "dateRange")
                /\ ~(Absent(Prop(advancedFilters[k], "from"))
                       /\ Absent(Prop(advancedFilters[k], "to"))))
                  => NewDate(Get(filteredData[i], k)).d.t = "number"
            /\ (/\ ActiveOfKind(k, "numberRange")
                /\ ~(Absent(Prop(advancedFilters[k], "min"))
                       /\ Absent(Prop(advancedFilters[k], "max"))))
                  => parseFloat(Get(filteredData[i], k)).t = "number"

\* C14: under a numberRange filter {min, max}, a row whose value parses to a
\* number x is among the filtered rows iff (min is absent or x >= min) and (max
\* is absent or x <= max), the bounds 0 and below 0 included: of the rows the
\* other filters leave, those that parse and are within the bounds are exactly
\* the filtered rows that parse.
C14_NumberRangeBounds ==
    pc # "render" =>
        \A k \in DOMAIN advancedFilters :
            ActiveOfKind(k, "numberRange") =>
                LET value == advancedFilters[k]
                    parses(row) == parseFloat(Get(row, k)).t = "number"
                    inRange(row) ==
                        WithinBounds(parseFloat(Get(row, k)),
                                     NumberBound(Prop(value, "min")),
                                     NumberBound(Prop(value, "max")))
                IN  SelectSeq(filteredData, parses) = SelectSeq(FilteredWithout(k), inRange)

\* the bound 0 excludes the row with -1 and the bound 3 keeps the row with 3
C14_Witness ==
    /\ pc = "idle"
    /\ ActiveOfKind("amount", "numberRange")
    /\ Prop(advancedFilters["amount"], "min") = Str(<<"0">>)
    /\ Prop(advancedFilters["amount"], "max") = Str(<<"3">>)
    /\ \E i \in 1..Len(data) : data[i] = FRow1
    /\ filteredData = <<FRow2>>
    /\ FilteredWithout("amount") # filteredData

\* C15: with a slider filter holding the threshold v, a row is among the
\* filtered rows iff the other filters leave it and its value parses to a number
\* that is >= v, for every number v, 0 included; a row whose value does not parse
\* is not among them.
C15_SliderThreshold ==
    pc # "render" =>
        \A k \in DOMAIN advancedFilters :
            (/\ HasDescriptor(k)
             /\ Descriptor(k).type = "slider"
             /\ advancedFilters[k].t = "number")
                => LET v == advancedFilters[k].n
                       atLeast(row) ==
                           /\ parseFloat(Get(row, k)).t = "number"
                           /\ parseFloat(Get(row, k)).n >= v
                   IN  filteredData = SelectSeq(FilteredWithout(k), atLeast)

\* C16: with a select filter holding a value, a row is among the filtered rows
\* iff the other filters leave it and its field is exactly the value; when the
\* filter holds the empty value, or "all" was chosen in the select, the field is
\* unconstrained and the filtered rows are those the other filters leave.
C16_SelectExact ==
    pc = "idle" =>
        \A k \in DOMAIN advancedFilters :
            (HasDescriptor(k) /\ Descriptor(k).type = "select") =>
                LET v == advancedFilters[k]
                    equal(row) == Get(row, k) = v
                IN  /\ filteredData = IF EmptyFilterValue(v)
                                      THEN FilteredWithout(k)
                                      ELSE SelectSeq(FilteredWithout(k), equal)
                    /\ (last.op = "setFilterValue" /\ last.key = k /\ last.v = AllItem)
                          => filteredData = FilteredWithout(k)

C16_Witness ==
    /\ Settled("setFilterValue")
    /\ last.key = "grade"
    /\ advancedFilters["grade"] = Str(<<"A">>)
    /\ \E i \in 1..Len(data) : data[i] = Row2
    /\ filteredData = <<Row1>>
    /\ FilteredWithout("grade") # filteredData

\* C17: with a multiSelect filter holding a non-empty array, a row is among the
\* filtered rows iff the other filters leave it and its field is a member of the
\* array (the options are OR'd); for the key predicted_claim_type the members of
\* the arrays nested in the value count as members.
C17_MultiSelectMember ==
    pc # "render" =>
        \A k \in DOMAIN advancedFilters :
            ActiveOfKind(k, "multiSelect") =>
                LET member(row) == Get(row, k) \in Members(advancedFilters[k])
                IN  filteredData = SelectSeq(FilteredWithout(k), member)

\* the row with "q", which the value holds in a nested array only, is kept and
\* the row with null is not
C17_Witness ==
    /\ pc = "idle"
    /\ ActiveOfKind("predicted_claim_type", "multiSelect")
    /\ \E i \in 1..Len(advancedFilters["predicted_claim_type"].a) :
          advancedFilters["predicted_claim_type"].a[i].t = "array"
    /\ \E i \in 1..Len(data) : data[i] = FRow3
    /\ \E i \in 1..Len(filteredData) : filteredData[i] = FRow2
    /\ \A i \in 1..Len(filteredData) : filteredData[i] # FRow3

\* C18: filter values that hold an empty multiSelect array or an empty select
\* value under a key give the same filtered rows as the filter values without
\* that key, whatever the rows, the search term and the other filters are.
C18_EmptyIsAbsent ==
    pc # "render" =>
        \A k \in DOMAIN advancedFilters :
            advancedFilters[k] \in {Arr(<<>>), Str(<<>>)}
                => filteredData = FilteredWithout(k)

\* an empty multiSelect array next to a filter that does exclude a row
C18_Witness ==
    /\ pc = "idle"
    /\ "tag" \in DOMAIN advancedFilters
    /\ advancedFilters["tag"] = Arr(<<>>)
    /\ \E k \in DOMAIN advancedFilters : ~EmptyFilterValue(advancedFilters[k])
    /\ filteredData # <<>>
    /\ Len(filteredData) < Len(data)

\* C19: with a text filter holding a non-empty v, a row is among the filtered
\* rows iff the other filters leave it and its field, as a string, contains v
\* ignoring case; with an empty v every row the other filters leave is.
C19_TextContains ==
    pc # "render" =>
        \A k \in DOMAIN advancedFilters :
            (HasDescriptor(k) /\ Descriptor(k).type = "text"
                 /\ advancedFilters[k].t = "string") =>
                LET v == advancedFilters[k].s
                    contains(row) == ContainsIgnoreCase(String(Get(row, k)), v)
                IN  filteredData = IF v = <<>>
                                   THEN FilteredWithout(k)
                                   ELSE SelectSeq(FilteredWithout(k), contains)

\* the value "B" keeps the rows named "Ab" and "b" and drops the row named null
C19_Witness ==
    /\ pc = "idle"
    /\ DOMAIN advancedFilters = {"name"}
    /\ advancedFilters["name"] = Str(<<"B">>)
    /\ searchTerm = <<>>
    /\ data = <<FRow1, FRow3, FRow2>>
    /\ filteredData = <<FRow1, FRow2>>

\* C20: a row is among the filtered rows iff the filters leave it and the search
\* term is empty or some field of the row (whether or not it has a column or a
\* filter field), as a string, contains the term ignoring case; when no field of
\* any row contains the term, the filtered rows are empty.
C20_SearchAnyField ==
    pc # "render" =>
        LET found(row) == SearchMatches(row, searchTerm)
        IN  /\ filteredData
                  = SelectSeq(computeFiltered(data, <<>>, advancedFilters, filterFields), found)
            /\ (\A i \in 1..Len(data) : ~found(data[i])) => filteredData = <<>>

\* the term "Z" is found in the column memo only, which has no filter field
C20_Witness ==
    /\ pc = "idle"
    /\ searchTerm = <<"Z">>
    /\ Len(data) = 3
    /\ \E i \in 1..Len(data) : data[i] = FRow1
    /\ filteredData = <<FRow2>>
    /\ ~HasDescriptor("memo")

\* C21: the filter predicate never throws: for rows with null, missing and
\* wrongly typed values, every kind of field and every value a widget stores,
\* a render ends with the filtered rows and never in the error state.
C21_NeverThrows ==
    /\ pc # "error"
    /\ pc # "render" => filteredData \in Seq({data[i] : i \in 1..Len(data)})

\* a filter with a descriptor was evaluated on the row with null, unparsable and
\* missing values
C21_Witness ==
    /\ pc = "idle"
    /\ \E i \in 1..Len(data) : data[i] = FRow3
    /\ \E k \in DOMAIN advancedFilters :
          /\ ~isEmptyValue(advancedFilters[k])
          /\ findField(filterFields, k) # 0
          /\ filterFields[findField(filterFields, k)].type \in {"dateRange", "numberRange"}

-----------------------------------------------------------------------------
(* The page controls: a table of up to MaxPages equal rows, one row a page, *)
(* with no filter fields, whose data the parent replaces and whose page    *)
(* controls the user clicks.                                               *)

PageDataSets == {[i \in 1..n |-> Row1] : n \in 0..MaxPages}

InitPages ==
    /\ data \in PageDataSets
    /\ pageSize = 1
    /\ filterFields = <<>>
    /\ searchTerm = <<>>
    /\ advancedFilters = EmptyObj
    /\ currentPage = 1
    /\ filters = EmptyObj
    /\ filteredData = computeFiltered(data, <<>>, EmptyObj, <<>>)
    /\ rendered = [searchTerm |-> <<>>, advancedFilters |-> EmptyObj, currentPage |-> 1,
                   filters |-> filters]
    /\ dirty = {}
    /\ pc = "idle"
    /\ last = NoEvent

NextPages ==
    \/ previousPage
    \/ nextPage
    \/ \E i \in 1..(2 * delta + 5) : pageLink(i)
    \/ \E newRecords \in PageDataSets : replaceRecords(newRecords)
    \/ render

SpecPages == InitPages /\ [][NextPages]_vars

\* the page numbers of a page list, in its order
PageNumbers(list) ==
    LET isNumber(x) == x.t = "number" IN SelectSeq(list, isNumber)

\* C22: the page list holds page 1 and the last page and every page within 2 of
\* currentPage that lies between them, and it holds a '...' between two of its
\* page numbers exactly when they are not adjacent (one '...', and at most one
\* on each side of the window).
C22_PageWindow ==
    (pc = "idle" /\ totalPages > 1) =>
        LET list == getVisiblePages
        IN  /\ \E i \in 1..Len(list) : list[i] = Num(1)
            /\ \E i \in 1..Len(list) : list[i] = Num(totalPages)
            /\ \A p \in (currentPage - 2)..(currentPage + 2) :
                  (1 <= p /\ p <= totalPages) => \E i \in 1..Len(list) : list[i] = Num(p)
            /\ \A i \in 1..Len(list) :
                  list[i] = Dots =>
                      /\ 1 < i /\ i < Len(list)
                      /\ list[i - 1] # Dots /\ list[i + 1] # Dots
                      /\ list[i + 1].n - list[i - 1].n > 1
            /\ \A i \in 1..(Len(list) - 1) :
                  (list[i] # Dots /\ list[i + 1] # Dots) => list[i + 1].n - list[i].n = 1
            /\ Cardinality({i \in 1..Len(list) : list[i] = Dots}) <= 2

\* C29: in every state that shows the page list, its page numbers are strictly
\* increasing and lie in 1..totalPages, and no '...' stands next to another
\* '...' or between two consecutive page numbers.
C29_PageListWellFormed ==
    (pc = "idle" /\ totalPages > 1) =>
        LET list == getVisiblePages
            nums == PageNumbers(list)
        IN  /\ \A i \in 1..(Len(nums) - 1) : nums[i].n < nums[i + 1].n
            /\ \A i \in 1..Len(nums) : 1 <= nums[i].n /\ nums[i].n <= totalPages
            /\ \A i \in 1..(Len(list) - 1) : ~(list[i] = Dots /\ list[i + 1] = Dots)
            /\ \A i \in 2..(Len(list) - 1) :
                  (list[i] = Dots /\ list[i - 1] # Dots /\ list[i + 1] # Dots)
                      => list[i + 1].n # list[i - 1].n + 1

\* C26: in every state, after any search, filter and page changes and data
\* replacements, a table with filtered rows shows rows: paginatedData is not
\* empty when filteredData is not.
C26_PageShowsRows ==
    pc = "idle" => (filteredData # <<>> => paginatedData # <<>>)

RECURSIVE PreviousReachesFirst(_, _)
\* invoking handlePageChange(page - 1) again and again ends on page 1
PreviousReachesFirst(page, pages) ==
    IF page = 1 THEN TRUE
    ELSE IF ~(page - 1 >= 1 /\ page - 1 <= pages) THEN FALSE
    ELSE PreviousReachesFirst(page - 1, pages)

\* C28: from every state with totalPages >= 1, invoking the previous control
\* (handlePageChange(currentPage - 1)) repeatedly brings currentPage to 1, and in
\* no state are both the previous and the next control without effect while
\* currentPage lies outside 1..totalPages.
C28_PreviousReachesFirst ==
    (pc = "idle" /\ totalPages >= 1) =>
        /\ PreviousReachesFirst(currentPage, totalPages)
        /\ ~(/\ (currentPage < 1 \/ currentPage > totalPages)
              /\ ~(currentPage - 1 >= 1 /\ currentPage - 1 <= totalPages)
              /\ ~(currentPage + 1 >= 1 /\ currentPage + 1 <= totalPages))

-----------------------------------------------------------------------------
(* The filter panel under events that come faster than renders: a table    *)
(* with a slider and a text filter, whose slider the user drags while      *)
(* typing into the text filter.                                            *)

SliderField(key, min, max) ==
    [key |-> key, type |-> "slider", options |-> <<>>, min |-> min, max |-> max]

SliderTextFields == << SliderField("score", 0, 1), Field("name", "text", <<>>) >>

InitRace ==
    /\ data \in SeqsUpTo({FRow1, FRow2}, MaxLen)
    /\ pageSize = MaxPageSize
    /\ filterFields = SliderTextFields
    /\ searchTerm = <<>>
    /\ advancedFilters = EmptyObj
    /\ currentPage = 1
    /\ filters = EmptyObj
    /\ filteredData = computeFiltered(data, <<>>, EmptyObj, filterFields)
    /\ rendered = [searchTerm |-> <<>>, advancedFilters |-> EmptyObj, currentPage |-> 1,
                   filters |-> filters]
    /\ dirty = {}
    /\ pc = "idle"
    /\ last = NoEvent

NextRace ==
    \/ \E i \in 1..Len(filterFields) : \E v \in 0..1 : sliderChange(filterFields[i], v)
    \/ \E i \in 1..Len(filterFields) : \E s \in TextInputs : textInput(filterFields[i], s)
    \/ handleReset
    \/ render
    \/ resetPageEffect

SpecRace == InitRace /\ [][NextRace]_vars

\* C27: after any handleFilterChange and handleReset calls, two
\* handleFilterChange calls for different keys before a render included, the
\* table's advancedFilters is the panel's filters and holds, for every key set
\* since the last reset, the value set last: no update is lost.
C27_NoLostUpdate ==
    pc = "idle" => (advancedFilters = filters /\ advancedFilters = last.set)


-----------------------------------------------------------------------------
(* The exported files.                                                     *)

RECURSIVE SplitLines(_)
\* the lines of a text, split at the line feeds
SplitLines(text) ==
    IF \E i \in 1..Len(text) : text[i] = "\n"
    THEN LET i == CHOOSE j \in 1..Len(text) :
                      text[j] = "\n" /\ \A k \in 1..(j - 1) : text[k] # "\n"
         IN  <<SubSeq(text, 1, i - 1)>> \o SplitLines(SubSeq(text, i + 1, Len(text)))
    ELSE <<text>>

RECURSIVE QuotedCells(_, _, _, _)
\* the number of cells of a line in which every cell is wrapped in double
\* quotes with the quotes inside doubled, and -1 for any other line
QuotedCells(line, i, at, count) ==
    IF i > Len(line) THEN (IF at = "quote" THEN count + 1 ELSE -1)
    ELSE CASE at = "start" ->
                  IF line[i] = "\"" THEN QuotedCells(line, i + 1, "inside", count) ELSE -1
           [] at = "inside" ->
                  QuotedCells(line, i + 1, IF line[i] = "\"" THEN "quote" ELSE "inside", count)
           [] OTHER ->
                  IF line[i] = "\"" THEN QuotedCells(line, i + 1, "inside", count)
                  ELSE IF line[i] = "," THEN QuotedCells(line, i + 1, "start", count + 1)
                  ELSE -1

RECURSIVE Doubled(_)
\* a text with every double quote written twice
Doubled(text) ==
    IF text = <<>> THEN <<>>
    ELSE (IF Head(text) = "\"" THEN <<"\"", "\"">> ELSE <<Head(text)>>) \o Doubled(Tail(text))

\* a text in double quotes, the quotes inside doubled
Quoted(text) == <<"\"">> \o Doubled(text) \o <<"\"">>

\* the number of times a character occurs in a text
Occurrences(text, ch) == Cardinality({i \in 1..Len(text) : text[i] = ch})

\* C23: both exporters write the whole filtered set, one entry per filtered
\* record in filtered order, whatever page is shown: the CSV has one line per
\* filtered record after the header, the JSON one object per filtered record,
\* and both are the serialisation of filteredData
C23_ExportsAllFiltered ==
    /\ last.op = "exportToCSV" =>
           /\ last.v = Str(csvContentOf(filteredData, columns))
           /\ Len(SplitLines(last.v.s)) = Len(filteredData) + 1
           /\ \A i \in 1..Len(filteredData) :
                  SplitLines(last.v.s)[i + 1] = csvRowOf(filteredData[i], columns)
    /\ last.op = "exportToJSON" =>
           /\ last.v = Str(jsonContentOf(filteredData))
           /\ Occurrences(last.v.s, "{") = Len(filteredData)

\* a CSV export on page 2 of a filtered set that is larger than the page and
\* smaller than the data
C23_Witness ==
    /\ last.op = "exportToCSV"
    /\ currentPage = 2
    /\ Len(paginatedData) < Len(filteredData)
    /\ Len(filteredData) < Len(data)

\* C24: the CSV of n filtered records has n + 1 lines, the first the labels in
\* column order, and every cell of every line, the header ones included, is
\* wrapped in double quotes with the quotes inside doubled; with no records the
\* file is the header line alone
C24_CsvQuoted ==
    last.op = "exportToCSV" =>
        LET lines == SplitLines(last.v.s)
        IN  /\ Len(lines) = Len(filteredData) + 1
            /\ lines[1] = JoinWith([c \in 1..Len(columns) |-> Quoted(columns[c].label)], <<",">>)
            /\ \A i \in 1..Len(lines) : QuotedCells(lines[i], 1, "start", 0) = Len(columns)

\* C25: a data cell of the CSV is its value as a string for every value that is
\* present, 0 and false included; only a missing or null value gives an empty cell
C25_CsvCellValue ==
    last.op = "exportToCSV" =>
        LET lines == SplitLines(last.v.s)
            cell(v) == Quoted(IF v.t \in {"undefined", "null"} THEN <<>> ELSE String(v))
        IN  /\ Len(lines) = Len(filteredData) + 1
            /\ \A i \in 1..Len(filteredData) :
                   lines[i + 1] = JoinWith([c \in 1..Len(columns) |->
                                               cell(Get(filteredData[i], columns[c].key))],
                                           <<",">>)


-----------------------------------------------------------------------------
(* ContactsSection (src/components/customer/ContactsSection.tsx).  Its     *)
(* state cells are kept in the variables of the table: contacts in data,   *)
(* the three select filters in filters, filteredContacts in filteredData.  *)

\* line 22
contactsPageSize == 15

\* a || b
OrElse(a, b) == IF Truthy(a) THEN a ELSE b

\* lines 25-26: value?.toLowerCase().includes(searchTerm.toLowerCase()); the
\* chain stops with undefined at a null or missing value
optionalIncludesLower(value, term) ==
    IF value.t \in {"undefined", "null"} THEN Undefined
    ELSE Bool(includes(toLowerCase(value.s), toLowerCase(term)))

\* line 27: value?.includes(searchTerm)
optionalIncludes(value, term) ==
    IF value.t \in {"undefined", "null"} THEN Undefined
    ELSE Bool(includes(value.s, term))

\* lines 25-27
matchesSearch(contact, term) ==
    OrElse(OrElse(optionalIncludesLower(Get(contact, "name"), term),
                  optionalIncludesLower(Get(contact, "email"), term)),
           optionalIncludes(Get(contact, "phone"), term))

\* lines 29-31: !filter || filter === 'all' || contact[column] === filter
matchesSelect(contact, column, filter) ==
    \/ ~Truthy(filter)
    \/ StrictEq(filter, AllItem)
    \/ StrictEq(Get(contact, column), filter)

\* lines 24-34
filteredContactsOf(contacts, term, fs) ==
    LET keep(contact) ==
            /\ Truthy(matchesSearch(contact, term))
            /\ matchesSelect(contact, "department", fs.departmentFilter)
            /\ matchesSelect(contact, "is_keyman", fs.keymanFilter)
            /\ matchesSelect(contact, "is_executive", fs.executiveFilter)
    IN  SelectSeq(contacts, keep)

\* line 81: the departments offered by the department select
uniqueDepartments(contacts) ==
    {contacts[i].department : i \in {j \in 1..Len(contacts) :
                                        /\ "department" \in DOMAIN contacts[j]
                                        /\ Truthy(contacts[j].department)}}

\* the contacts of the model: one with every value, one whose name, email and
\* phone are all null, one with only an email
Contact1 == [name |-> Str(<<"A", "b">>), email |-> Str(<<"a", "@">>), phone |-> Str(<<"0", "1">>),
             department |-> Str(<<"x">>), is_keyman |-> Str(<<"1">>),
             is_executive |-> Str(<<"0">>)]
Contact2 == [name |-> Null, email |-> Null, phone |-> Null, department |-> Str(<<"y">>),
             is_keyman |-> Str(<<"0">>), is_executive |-> Str(<<"0">>)]
Contact3 == [name |-> Null, email |-> Str(<<"B">>), department |-> Null,
             is_keyman |-> Str(<<"0">>), is_executive |-> Str(<<"1">>)]
ContactSets == SeqsUpTo({Contact1, Contact2, Contact3}, MaxLen)

\* lines 17-19: the three filters start empty
NoContactFilters ==
    [departmentFilter |-> Str(<<>>), keymanFilter |-> Str(<<>>), executiveFilter |-> Str(<<>>)]

\* lines 114-116 and 125-127: the items of the keyman and executive selects
FlagItems == {AllItem, Str(<<"1">>), Str(<<"0">>)}

InitContacts ==
    /\ data \in ContactSets
    /\ pageSize = contactsPageSize
    /\ filterFields = <<>>
    /\ searchTerm = <<>>
    /\ advancedFilters = EmptyObj
    /\ filters = NoContactFilters
    /\ currentPage = 1
    /\ filteredData = filteredContactsOf(data, searchTerm, filters)
    /\ rendered = [searchTerm |-> <<>>, advancedFilters |-> EmptyObj, currentPage |-> 1,
                   filters |-> filters]
    /\ dirty = {}
    /\ pc = "idle"
    /\ last = NoEvent

\* line 92: onChange of the search box of the contacts
contactSearchChange(t) ==
    /\ pc = "idle"
    /\ t # searchTerm
    /\ searchTerm' = t
    /\ dirty' = {"searchTerm"}
    /\ pc' = Schedule(dirty')
    /\ last' = Event("setSearchTerm", 0, "", Undefined)
    /\ UNCHANGED <<data, pageSize, filterFields, advancedFilters, currentPage, filters,
                   filteredData, rendered>>

\* one of the three selects stores the item chosen
setContactFilter(cell, item) ==
    /\ pc = "idle"
    /\ item # filters[cell]
    /\ filters' = [filters EXCEPT ![cell] = item]
    /\ dirty' = {"filters"}
    /\ pc' = Schedule(dirty')
    /\ last' = Event("setFilterValue", 0, cell, item)
    /\ UNCHANGED <<data, pageSize, filterFields, searchTerm, advancedFilters, currentPage,
                   filteredData, rendered>>

\* line 97
setDepartmentFilter(item) ==
    /\ item \in {AllItem} \cup uniqueDepartments(data)
    /\ setContactFilter("departmentFilter", item)

\* line 109
setKeymanFilter(item) == item \in FlagItems /\ setContactFilter("keymanFilter", item)

\* line 120
setExecutiveFilter(item) == item \in FlagItems /\ setContactFilter("executiveFilter", item)

\* ContactsSection renders: filteredContacts is computed in every render
\* (line 24, no memo), and the effect of lines 43-45 is scheduled when the
\* search term or a filter was set
renderContacts ==
    /\ pc = "render"
    /\ filteredData' = filteredContactsOf(data, searchTerm, filters)
    /\ rendered' = [searchTerm |-> searchTerm, advancedFilters |-> advancedFilters,
                    currentPage |-> currentPage, filters |-> filters]
    /\ dirty' = {}
    /\ pc' = IF dirty \cap {"searchTerm", "filters"} # {} THEN "effect" ELSE "idle"
    /\ UNCHANGED <<data, pageSize, filterFields, searchTerm, advancedFilters, currentPage,
                   filters, last>>

\* lines 43-45: setCurrentPage(1) after the commit
resetContactsPageEffect ==
    /\ pc = "effect"
    /\ currentPage' = 1
    /\ dirty' = IF currentPage # 1 THEN {"currentPage"} ELSE {}
    /\ pc' = Schedule(dirty')
    /\ UNCHANGED <<data, pageSize, filterFields, searchTerm, advancedFilters, filters,
                   filteredData, rendered, last>>

NextContacts ==
    \/ \E t \in SearchTerms : contactSearchChange(t)
    \/ \E item \in {AllItem, Str(<<"x">>), Str(<<"y">>)} : setDepartmentFilter(item)
    \/ \E item \in FlagItems : setKeymanFilter(item)
    \/ \E item \in FlagItems : setExecutiveFilter(item)
    \/ renderContacts
    \/ resetContactsPageEffect

SpecContacts == InitContacts /\ [][NextContacts]_vars

\* C30: in ContactsSection, with an empty search term and no department, keyman
\* or executive filter selected, the filtered contacts are all the contacts,
\* those whose name, email and phone are all null or missing included
C30_NoFilterKeepsAll ==
    (pc = "idle" /\ searchTerm = <<>> /\ filters = NoContactFilters) => filteredData = data

====
